---- MODULE Spec2Model ----
(***************************************************************************)
(* A model of NotecardConnectionHandler                                    *)
(* (src/src/Arduino_NotecardConnectionHandler.cpp): the connection state   *)
(* machine driven by ticks, the status probe, the inbound dequeue with its *)
(* interrupt re-arm, and the byte-stream operations write / available /    *)
(* read over the outbound and inbound notefiles.                           *)
(*                                                                         *)
(* Every transaction with the Notecard is an input of the operation that   *)
(* issues it.  Its outcome is one of                                       *)
(*   "nomem"  the request (or, for the calls that test the response        *)
(*            handle, the response) could not be allocated,                *)
(*   "err"    the response carries an "err" field,                         *)
(*   "ok"     the Notecard processed the request.                          *)
(* txlog lists the transactions the last operation attempted, in order,    *)
(* each with its outcome.                                                  *)
(***************************************************************************)
EXTENDS Integers, Sequences, FiniteSets, TLC

(***************************************************************************)
(* Bounds of the model.                                                    *)
(***************************************************************************)
\* Longest payload handed to write().
MaxPayloadLen == 3
\* Most notes held by the outbound and inbound notefiles together.
MaxQueue == 2
\* millis() counts modulo 2^32 in the code; the model counts modulo this.
MillisModulus == 4
\* The connection timeout, in model clock units: the handlers only compare
\* the elapsed time against it, and the model scales it down with the clock.
NOTEHUB_CONN_TIMEOUT_MS == 1
\* Payload buffers allocated and not released are counted up to here.
MaxLiveBuffers == 2

(***************************************************************************)
(* Enumerations and status codes.                                          *)
(***************************************************************************)
NetworkConnectionState ==
  {"INIT", "CONNECTING", "CONNECTED", "DISCONNECTING", "DISCONNECTED",
   "CLOSED", "ERROR"}

\* What a read of the uninitialised local `result` of update_handleInit can
\* yield: any enumerator, or a value that is none of them.
IndeterminateState == NetworkConnectionState \cup {"OUT_OF_RANGE"}

NOTECARD_ERROR_NONE == 0
NOTECARD_ERROR_NO_DATA_AVAILABLE == -1
NOTECARD_ERROR_GENERIC == -2
HOST_ERROR_OUT_OF_MEMORY == -3

Outcome == {"ok", "err", "nomem"}

\* The outcomes a step can take: none ("skip") when the step is not reached.
OutcomeIf(reached) == IF reached THEN Outcome ELSE {"skip"}

\* One attempted transaction: the request, its distinguishing argument, the
\* outcome, and the data sent or received that the caller acts on.
Tx(req, arg, out, data) == [req |-> req, arg |-> arg, out |-> out, data |-> data]

NoData == <<>>

(***************************************************************************)
(* Binary payloads: JAddBinaryToObject base64-encodes the bytes into the   *)
(* "payload" string, JGetBinaryFromObject decodes it.  A base64 string is  *)
(* a sequence of sextets 0..63, padded with 64 ('=').                      *)
(***************************************************************************)
\* The byte at position i of the sample payloads.
SampleByte(i) == (89 * i + 232) % 256

\* The payloads handed to write(): the sample bytes, cut at every length.
Payloads == {[i \in 1..n |-> SampleByte(i)] : n \in 0..MaxPayloadLen}

RECURSIVE JB64Encode(_)
JB64Encode(bytes) ==
  IF Len(bytes) = 0 THEN <<>>
  ELSE IF Len(bytes) = 1 THEN
    LET n == bytes[1] * 65536
    IN <<n \div 262144, (n \div 4096) % 64, 64, 64>>
  ELSE IF Len(bytes) = 2 THEN
    LET n == bytes[1] * 65536 + bytes[2] * 256
    IN <<n \div 262144, (n \div 4096) % 64, (n \div 64) % 64, 64>>
  ELSE
    LET n == bytes[1] * 65536 + bytes[2] * 256 + bytes[3]
    IN <<n \div 262144, (n \div 4096) % 64, (n \div 64) % 64, n % 64>>
       \o JB64Encode(SubSeq(bytes, 4, Len(bytes)))

\* The leading run of sextets: decoding stops at the first other character.
RECURSIVE B64Prefix(_)
B64Prefix(str) ==
  IF Len(str) = 0 \/ str[1] > 63 THEN <<>>
  ELSE <<str[1]>> \o B64Prefix(SubSeq(str, 2, Len(str)))

RECURSIVE B64DecodeSextets(_)
B64DecodeSextets(sx) ==
  IF Len(sx) < 2 THEN <<>>
  ELSE IF Len(sx) = 2 THEN
    <<(sx[1] * 4 + sx[2] \div 16) % 256>>
  ELSE IF Len(sx) = 3 THEN
    <<(sx[1] * 4 + sx[2] \div 16) % 256, (sx[2] * 16 + sx[3] \div 4) % 256>>
  ELSE
    <<(sx[1] * 4 + sx[2] \div 16) % 256, (sx[2] * 16 + sx[3] \div 4) % 256,
      (sx[3] * 64 + sx[4]) % 256>>
    \o B64DecodeSextets(SubSeq(sx, 5, Len(sx)))

JB64Decode(str) == B64DecodeSextets(B64Prefix(str))

\* JAddBinaryToObject(req, "payload", buf, size)
JAddBinaryToObject(buf) == [payload |-> JB64Encode(buf)]

\* JGetBinaryFromObject(note, "payload", &buffer, &size): an empty or missing
\* payload string makes the call return false with both outputs untouched.
\* Otherwise the decoded bytes are handed over in a buffer allocated for
\* them, which the caller owns from then on.
JGetBinaryFromObject(note, buffer, size) ==
  IF Len(note.payload) = 0
    THEN [buffer |-> buffer, size |-> size, allocated |-> FALSE]
    ELSE [buffer |-> JB64Decode(note.payload),
          size |-> Len(JB64Decode(note.payload)), allocated |-> TRUE]

(***************************************************************************)
(* NotecardConnectionStatus and the status probe.                          *)
(***************************************************************************)
ConnectedToken == <<"{", "c", "o", "n", "n", "e", "c", "t", "e", "d", "}">>

\* The status texts a hub.status response is drawn from: no "status" field
\* (JGetString yields ""), the token alone, the token after other text, and a
\* text naming another token.
StatusTexts ==
  { <<>>,
    ConnectedToken,
    <<"u", "p", " ">> \o ConnectedToken,
    <<"{", "d", "i", "s", "c", "o", "n", "n", "e", "c", "t", "e", "d", "}">> }

\* strstr(haystack, needle) != nullptr
strstr(haystack, needle) ==
  \E i \in 0..(Len(haystack) - Len(needle)) :
    SubSeq(haystack, i + 1, i + Len(needle)) = needle

\* NotecardConnectionStatus(void)
DefaultStatus ==
  [transport_connected |-> FALSE, connected_to_notehub |-> FALSE,
   notecard_error |-> FALSE, host_error |-> FALSE, reserved |-> 0]

Bit(b) == IF b THEN 1 ELSE 0

\* operator uint_fast8_t () const
StatusToUint(s) ==
  ((s.reserved * 16) % 256) + Bit(s.host_error) * 8 + Bit(s.notecard_error) * 4
    + Bit(s.connected_to_notehub) * 2 + Bit(s.transport_connected)

\* The constructor with the masked value stored in the one-bit field as an
\* integer: 0x02 keeps no low bit.
StatusFromUint_Truncating(x) ==
  [transport_connected |-> (x % 2) # 0,
   connected_to_notehub |-> (((x \div 2) % 2) * 2) % 2 # 0,
   notecard_error |-> ((x \div 4) % 2) # 0,
   host_error |-> ((x \div 8) % 2) # 0,
   reserved |-> ((x \div 16) * 16) % 16]

\* NotecardConnectionStatus(uint_fast8_t x): each flag is the test of its
\* bit; the 4-bit field `reserved` keeps the low four bits of (x & 0xF0).
StatusFromUint(x) ==
  [transport_connected |-> (x % 2) # 0,
   connected_to_notehub |-> ((x \div 2) % 2) # 0,
   notecard_error |-> ((x \div 4) % 2) # 0,
   host_error |-> ((x \div 8) % 2) # 0,
   reserved |-> ((x \div 16) * 16) % 16]

\* The hub.status responses: the outcome, and for "ok" the decoded fields.
StatusResponses ==
  {[out |-> o, status |-> <<>>, connected |-> FALSE] : o \in {"nomem", "err"}}
    \cup [out : {"ok"}, status : StatusTexts, connected : BOOLEAN]

\* connected(): the status as the uint_fast8_t the function returns.
connected(r) ==
  IF r.out = "nomem" THEN
    StatusToUint([DefaultStatus EXCEPT !.transport_connected = FALSE,
                                       !.connected_to_notehub = FALSE,
                                       !.notecard_error = FALSE,
                                       !.host_error = TRUE])
  ELSE IF r.out = "err" THEN
    StatusToUint([DefaultStatus EXCEPT !.notecard_error = TRUE])
  ELSE
    StatusToUint([DefaultStatus EXCEPT
                    !.transport_connected = strstr(r.status, ConnectedToken),
                    !.connected_to_notehub = r.connected,
                    !.notecard_error = FALSE,
                    !.host_error = FALSE])

StatusTx(r) == Tx("hub.status", "", r.out, r)

(***************************************************************************)
(* Private member functions.                                               *)
(***************************************************************************)
\* armInterrupt(): the card.attn re-arm.  An error response is ignored.
armInterrupt(o) ==
  [result |-> (o # "nomem"),
   log |-> <<Tx("card.attn", "rearm,files", o, NoData)>>]

\* configureConnection(connect): the hub.set reconfiguration.
configureConnection(connect, o) ==
  [result |-> (o = "ok"),
   log |-> <<Tx("hub.set", IF connect THEN "continuous" ELSE "periodic", o, NoData)>>]

\* How the Notecard answers a note.get it processes: the oldest note of the
\* notefile, or the {note-noexist} error when the notefile is empty.
NoteGetReply(queue, o) ==
  IF o # "ok" THEN o
  ELSE IF Len(queue) = 0 THEN "note-noexist" ELSE "note"

\* getNote() re-arming on every reply that carries no note.
ArmsOnReply_AnyError(reply, hw_int) == reply # "note" /\ hw_int

\* Whether getNote() calls armInterrupt() on this reply.
ArmsOnReply(reply, hw_int) == reply = "note-noexist" /\ hw_int

\* getNote(pop): note is <<>> for nullptr, else the one note returned; queue
\* is the notefile afterwards ("delete": true removes the note returned).
getNote(pop, queue, hw_int, o, o_attn) ==
  LET reply == NoteGetReply(queue, o)
      get == Tx("note.get", IF pop THEN "delete" ELSE "peek", reply,
                IF reply = "note" THEN Head(queue).payload ELSE NoData)
  IN IF reply = "note" THEN
       [note |-> <<Head(queue)>>,
        queue |-> IF pop THEN Tail(queue) ELSE queue,
        log |-> <<get>>]
     ELSE
       [note |-> <<>>,
        queue |-> queue,
        log |-> IF ArmsOnReply(reply, hw_int)
                  THEN <<get>> \o armInterrupt(o_attn).log
                  ELSE <<get>>]

\* The outcomes of the re-arm that follows a note.get with outcome o.
AttnOutcomes(queue, hw_int, o) ==
  OutcomeIf(ArmsOnReply(NoteGetReply(queue, o), hw_int))

(***************************************************************************)
(* State.                                                                  *)
(***************************************************************************)
VARIABLES
  keep_alive,            \* _keep_alive
  en_hw_int,             \* _en_hw_int
  state,                 \* the connection state the driver holds
  conn_start_ms,         \* _conn_start_ms
  dev_uid,               \* _dev_uid
  inbound_buffer,        \* _inbound_buffer (nullptr is the empty sequence)
  inbound_buffer_index,  \* _inbound_buffer_index
  inbound_buffer_size,   \* _inbound_buffer_size
  qis,                   \* the inbound notefile, oldest note first
  qos,                   \* the outbound notefile, oldest note first
  clock,                 \* millis()
  op,                    \* the last operation
  ret,                   \* what it returned
  txlog,                 \* the transactions it attempted
  live_buffers           \* payload buffers allocated and not released

vars == <<keep_alive, en_hw_int, state, conn_start_ms, dev_uid, inbound_buffer,
          inbound_buffer_index, inbound_buffer_size, qis, qos, clock, op, ret,
          txlog, live_buffers>>

config == <<keep_alive, en_hw_int>>
buffer == <<inbound_buffer, inbound_buffer_index, inbound_buffer_size>>

\* The inbound notefile lives on the Notecard and outlasts the handler: at
\* construction it is empty or holds notes the relay delivered earlier.
PendingInbound ==
  {<<>>,
   <<JAddBinaryToObject(<<SampleByte(1)>>)>>,
   <<JAddBinaryToObject(<<SampleByte(1), SampleByte(2)>>),
     JAddBinaryToObject(<<SampleByte(1)>>)>>}

Init ==
  /\ keep_alive \in BOOLEAN
  /\ en_hw_int \in BOOLEAN
  /\ state = "INIT"
  /\ conn_start_ms = 0
  /\ dev_uid = ""
  /\ inbound_buffer = <<>>
  /\ inbound_buffer_index = 0
  /\ inbound_buffer_size = 0
  /\ qis \in PendingInbound
  /\ qos = <<>>
  /\ clock = 0
  /\ live_buffers = 0
  /\ op = "construct"
  /\ ret = "none"
  /\ txlog = <<>>

(***************************************************************************)
(* Public member functions, as functions of the state and their inputs.    *)
(***************************************************************************)
\* getTime(): r is the card.time outcome and the "time" field.
getTime(r) == IF r.out = "ok" THEN r.time ELSE 0

TimeResponses ==
  {[out |-> o, time |-> 0] : o \in {"nomem", "err"}} \cup {[out |-> "ok", time |-> 1]}

\* The note.add request with the immediate sync asked for unconditionally.
NoteAddRequest_AlwaysSync(buf, ka) ==
  [file |-> "arduino_iot_cloud.qos", note |-> JAddBinaryToObject(buf),
   sync |-> TRUE]

\* The note.add request write() builds.
NoteAddRequest(buf, ka) ==
  [file |-> "arduino_iot_cloud.qos", note |-> JAddBinaryToObject(buf), sync |-> ka]

\* write(buf, size)
write(buf, ka, queue, o) ==
  LET req == NoteAddRequest(buf, ka)
  IN [result |-> IF o = "nomem" THEN HOST_ERROR_OUT_OF_MEMORY
                 ELSE IF o = "err" THEN NOTECARD_ERROR_GENERIC
                 ELSE NOTECARD_ERROR_NONE,
      queue |-> IF o = "ok" THEN Append(queue, req.note) ELSE queue,
      log |-> <<Tx("note.add", IF req.sync THEN "sync" ELSE "nosync", o, buf)>>]

\* read() with the cursor advanced also when no byte is left.
read_AdvancePastEnd(buf, index, size) ==
  IF index < size
    THEN [result |-> buf[index + 1], index |-> index + 1]
    ELSE [result |-> NOTECARD_ERROR_NO_DATA_AVAILABLE, index |-> index + 1]

\* read()
read(buf, index, size) ==
  IF index < size
    THEN [result |-> buf[index + 1], index |-> index + 1]
    ELSE [result |-> NOTECARD_ERROR_NO_DATA_AVAILABLE, index |-> index]

\* available() adopting a payload without putting the cursor back to zero.
available_KeepCursor(buf, index, size, queue, hw_int, g, a) ==
  IF index < size THEN
    [result |-> TRUE, buffer |-> buf, index |-> index, size |-> size,
     allocated |-> FALSE, released |-> FALSE, queue |-> queue, log |-> <<>>]
  ELSE
    LET got == getNote(TRUE, queue, hw_int, g, a)
    IN IF got.note # <<>> THEN
         LET bin == JGetBinaryFromObject(got.note[1], buf, size)
         IN [result |-> TRUE, buffer |-> bin.buffer, index |-> index,
             size |-> bin.size, allocated |-> bin.allocated,
             released |-> FALSE, queue |-> got.queue, log |-> got.log]
       ELSE
         [result |-> FALSE, buffer |-> buf, index |-> index, size |-> size,
          allocated |-> FALSE, released |-> FALSE, queue |-> got.queue,
          log |-> got.log]

\* available(): g and a are the outcomes of the note.get and of the re-arm.
\* `allocated` tells whether the call took ownership of a new payload buffer,
\* `released` whether it freed the one it held: no path of the code does.
available(buf, index, size, queue, hw_int, g, a) ==
  IF index < size THEN
    [result |-> TRUE, buffer |-> buf, index |-> index, size |-> size,
     allocated |-> FALSE, released |-> FALSE, queue |-> queue, log |-> <<>>]
  ELSE
    LET got == getNote(TRUE, queue, hw_int, g, a)
    IN IF got.note # <<>> THEN
         LET bin == JGetBinaryFromObject(got.note[1], buf, size)
         IN [result |-> TRUE, buffer |-> bin.buffer, index |-> 0,
             size |-> bin.size, allocated |-> bin.allocated,
             released |-> FALSE, queue |-> got.queue, log |-> got.log]
       ELSE
         [result |-> FALSE, buffer |-> buf, index |-> index, size |-> size,
          allocated |-> FALSE, released |-> FALSE, queue |-> got.queue,
          log |-> got.log]

(***************************************************************************)
(* Protected member functions: the handlers of the state machine.          *)
(***************************************************************************)
\* update_handleInit, step by step.  Each step takes the handler's locals
\* and members so far: result, conn_start_ms, dev_uid and the log.

\* The inbound probe deleting the note it finds.
Init_probe_Consuming(queue, hw_int, start, uid, g, a, u) ==
  LET got == getNote(TRUE, queue, hw_int, g, a)
  IN [result |-> IF got.note # <<>> THEN "INIT" ELSE u,
      conn_start_ms |-> start, dev_uid |-> uid, queue |-> got.queue,
      log |-> got.log]

\* The inbound probe with a failed re-arm treated as a failure of the probe.
Init_probe_RearmErrorFails(queue, hw_int, start, uid, g, a, u) ==
  LET got == getNote(FALSE, queue, hw_int, g, a)
  IN [result |-> IF got.note # <<>> THEN "INIT"
                 ELSE IF Len(got.log) = 2 /\ got.log[2].out = "err"
                   THEN "ERROR"
                   ELSE u,
      conn_start_ms |-> start, dev_uid |-> uid, queue |-> got.queue,
      log |-> got.log]

\* The inbound probe.  `result` is assigned only when a note is pending; u is
\* the value the later reads of the unassigned local yield.
Init_probe(queue, hw_int, start, uid, g, a, u) ==
  LET got == getNote(FALSE, queue, hw_int, g, a)
  IN [result |-> IF got.note # <<>> THEN "INIT" ELSE u,
      conn_start_ms |-> start, dev_uid |-> uid, queue |-> got.queue,
      log |-> got.log]

\* The uninitialised values the probe's outcome leaves open.
ProbeIndeterminate(queue, g) ==
  IF NoteGetReply(queue, g) = "note" THEN {"INIT"} ELSE IndeterminateState

\* "Set the project UID": configureConnection(true).
Init_configure(h, o) ==
  IF h.result # "INIT" THEN h
  ELSE LET c == configureConnection(TRUE, o)
       IN [h EXCEPT !.result = IF c.result THEN "INIT" ELSE "ERROR",
                    !.log = h.log \o c.log]

\* "Set inbound/outbound template": one note.template transaction.
Init_template(h, file, o) ==
  IF h.result # "INIT" THEN h
  ELSE [h EXCEPT !.result = IF o = "ok" THEN "INIT" ELSE "ERROR",
                 !.log = Append(h.log, Tx("note.template", file, o, NoData))]

\* "Get the device UID": hub.get, then the keep-alive decision.
Init_hubget(h, ka, now, o, device) ==
  IF h.result # "INIT" THEN h
  ELSE IF o # "ok" THEN
    [h EXCEPT !.result = "ERROR",
              !.log = Append(h.log, Tx("hub.get", "", o, NoData))]
  ELSE
    [h EXCEPT !.result = IF ka THEN "CONNECTING" ELSE "DISCONNECTED",
              !.conn_start_ms = IF ka THEN now ELSE h.conn_start_ms,
              !.dev_uid = device,
              !.log = Append(h.log, Tx("hub.get", "", o, NoData))]

DeviceUids == {"dev:1"}

\* update_handleInit(): the steps in the order of the code.  g, a, c, ti, to
\* and hg are the outcomes of note.get, card.attn, hub.set, the two
\* note.template and hub.get; a step that is not reached ignores its outcome.
update_handleInit(queue, hw_int, start, uid, ka, now, g, a, u, c, ti, to, hg, device) ==
  LET h0 == Init_probe(queue, hw_int, start, uid, g, a, u)
      h1 == Init_configure(h0, c)
      h2 == Init_template(h1, "arduino_iot_cloud.qis", ti)
      h3 == Init_template(h2, "arduino_iot_cloud.qos", to)
  IN Init_hubget(h3, ka, now, hg, device)

\* update_handleConnecting() giving up as soon as the timeout is reached.
update_handleConnecting_AtTimeout(x, now, start) ==
  LET conn_status == StatusFromUint(x)
  IN IF ~conn_status.connected_to_notehub THEN
       IF ((now - start) % MillisModulus) >= NOTEHUB_CONN_TIMEOUT_MS
         THEN "INIT"
         ELSE "CONNECTING"
     ELSE "CONNECTED"

\* update_handleConnecting(): x is what connected() returned.
update_handleConnecting(x, now, start) ==
  LET conn_status == StatusFromUint(x)
  IN IF ~conn_status.connected_to_notehub THEN
       IF ((now - start) % MillisModulus) > NOTEHUB_CONN_TIMEOUT_MS
         THEN "INIT"
         ELSE "CONNECTING"
     ELSE "CONNECTED"

\* update_handleConnected() deciding on the local transport's flag.
update_handleConnected_ByTransport(x) ==
  LET conn_status == StatusFromUint(x)
  IN IF ~conn_status.transport_connected THEN "DISCONNECTED" ELSE "CONNECTED"

\* update_handleConnected()
update_handleConnected(x) ==
  LET conn_status == StatusFromUint(x)
  IN IF ~conn_status.connected_to_notehub THEN "DISCONNECTED" ELSE "CONNECTED"

\* update_handleDisconnecting()
update_handleDisconnecting == "DISCONNECTED"

\* update_handleDisconnected() reconfiguring in connect mode.
update_handleDisconnected_ConnectMode(ka, o) ==
  IF ka THEN [result |-> "INIT", log |-> <<>>]
  ELSE LET c == configureConnection(TRUE, o)
       IN [result |-> IF c.result THEN "CLOSED" ELSE "ERROR", log |-> c.log]

\* update_handleDisconnected(): o is the hub.set outcome when keep-alive is
\* inactive.
update_handleDisconnected(ka, o) ==
  IF ka THEN [result |-> "INIT", log |-> <<>>]
  ELSE LET c == configureConnection(FALSE, o)
       IN [result |-> IF c.result THEN "CLOSED" ELSE "ERROR", log |-> c.log]

(***************************************************************************)
(* Actions.                                                                *)
(***************************************************************************)
\* The payload buffers the handler owns after a call that allocated or
\* released one.
Owned(live, allocated, released) ==
  LET kept == IF released /\ live > 0 THEN live - 1 ELSE live
  IN IF allocated /\ kept < MaxLiveBuffers THEN kept + 1 ELSE kept

\* A tick in INIT.
TickInit ==
  /\ state = "INIT"
  /\ \E g \in Outcome :
     \E a \in AttnOutcomes(qis, en_hw_int, g) :
     \E u \in ProbeIndeterminate(qis, g) :
       LET h0 == Init_probe(qis, en_hw_int, conn_start_ms, dev_uid, g, a, u) IN
       \E c \in OutcomeIf(h0.result = "INIT") :
         LET h1 == Init_configure(h0, c) IN
         \E ti \in OutcomeIf(h1.result = "INIT") :
           LET h2 == Init_template(h1, "arduino_iot_cloud.qis", ti) IN
           \E to \in OutcomeIf(h2.result = "INIT") :
             LET h3 == Init_template(h2, "arduino_iot_cloud.qos", to) IN
             \E hg \in OutcomeIf(h3.result = "INIT") :
             \E device \in DeviceUids :
               LET h4 == update_handleInit(qis, en_hw_int, conn_start_ms,
                                           dev_uid, keep_alive, clock, g, a,
                                           u, c, ti, to, hg, device) IN
               /\ state' = h4.result
               /\ conn_start_ms' = h4.conn_start_ms
               /\ dev_uid' = h4.dev_uid
               /\ op' = "update_handleInit"
               /\ ret' = h4.result
               /\ txlog' = h4.log
               /\ qis' = h4.queue
  /\ UNCHANGED <<config, live_buffers, buffer, qos, clock>>

\* A tick in CONNECTING.
TickConnecting ==
  /\ state = "CONNECTING"
  /\ \E r \in StatusResponses :
       LET next == update_handleConnecting(connected(r), clock, conn_start_ms) IN
       /\ state' = next
       /\ op' = "update_handleConnecting"
       /\ ret' = next
       /\ txlog' = <<StatusTx(r)>>
  /\ UNCHANGED <<config, live_buffers, conn_start_ms, dev_uid, buffer, qis, qos, clock>>

\* A tick in CONNECTED.
TickConnected ==
  /\ state = "CONNECTED"
  /\ \E r \in StatusResponses :
       LET next == update_handleConnected(connected(r)) IN
       /\ state' = next
       /\ op' = "update_handleConnected"
       /\ ret' = next
       /\ txlog' = <<StatusTx(r)>>
  /\ UNCHANGED <<config, live_buffers, conn_start_ms, dev_uid, buffer, qis, qos, clock>>

\* A tick in DISCONNECTING.
TickDisconnecting ==
  /\ state = "DISCONNECTING"
  /\ state' = update_handleDisconnecting
  /\ op' = "update_handleDisconnecting"
  /\ ret' = update_handleDisconnecting
  /\ txlog' = <<>>
  /\ UNCHANGED <<config, live_buffers, conn_start_ms, dev_uid, buffer, qis, qos, clock>>

\* A tick in DISCONNECTED.
TickDisconnected ==
  /\ state = "DISCONNECTED"
  /\ \E o \in OutcomeIf(~keep_alive) :
       LET d == update_handleDisconnected(keep_alive, o) IN
       /\ state' = d.result
       /\ op' = "update_handleDisconnected"
       /\ ret' = d.result
       /\ txlog' = d.log
  /\ UNCHANGED <<config, live_buffers, conn_start_ms, dev_uid, buffer, qis, qos, clock>>

\* The owning driver requests a disconnect: the handler is put in
\* DISCONNECTING.
DriverDisconnect ==
  /\ state \in {"INIT", "CONNECTING", "CONNECTED", "DISCONNECTED"}
  /\ state' = "DISCONNECTING"
  /\ op' = "disconnect"
  /\ ret' = "none"
  /\ txlog' = <<>>
  /\ UNCHANGED <<config, live_buffers, conn_start_ms, dev_uid, buffer, qis, qos, clock>>

GetTime ==
  /\ \E r \in TimeResponses :
       /\ op' = "getTime"
       /\ ret' = getTime(r)
       /\ txlog' = <<Tx("card.time", "", r.out, r)>>
  /\ UNCHANGED <<config, live_buffers, state, conn_start_ms, dev_uid, buffer, qis, qos, clock>>

\* write(buf, size).  The notefiles hold at most MaxQueue notes: a note.add
\* beyond that is not answered "ok".
Write ==
  /\ \E buf \in Payloads :
     \E o \in (IF Len(qos) + Len(qis) < MaxQueue THEN Outcome ELSE {"err", "nomem"}) :
       LET w == write(buf, keep_alive, qos, o) IN
       /\ qos' = w.queue
       /\ op' = "write"
       /\ ret' = w.result
       /\ txlog' = w.log
  /\ UNCHANGED <<config, live_buffers, state, conn_start_ms, dev_uid, buffer, qis, clock>>

Read ==
  /\ LET r == read(inbound_buffer, inbound_buffer_index, inbound_buffer_size) IN
       /\ inbound_buffer_index' = r.index
       /\ op' = "read"
       /\ ret' = r.result
       /\ txlog' = <<>>
  /\ UNCHANGED <<config, live_buffers, state, conn_start_ms, dev_uid, inbound_buffer,
                 inbound_buffer_size, qis, qos, clock>>

Available ==
  /\ \E g \in OutcomeIf(~(inbound_buffer_index < inbound_buffer_size)) :
     \E a \in AttnOutcomes(qis, en_hw_int, g) :
       LET v == available(inbound_buffer, inbound_buffer_index,
                          inbound_buffer_size, qis, en_hw_int, g, a) IN
       /\ inbound_buffer' = v.buffer
       /\ inbound_buffer_index' = v.index
       /\ inbound_buffer_size' = v.size
       /\ qis' = v.queue
       /\ op' = "available"
       /\ ret' = v.result
       /\ txlog' = v.log
       /\ live_buffers' = Owned(live_buffers, v.allocated, v.released)
  /\ UNCHANGED <<config, state, conn_start_ms, dev_uid, qos, clock>>

\* The relay hands the oldest outbound note back on the inbound notefile.
RelayDeliver ==
  /\ Len(qos) > 0
  /\ qis' = Append(qis, Head(qos))
  /\ qos' = Tail(qos)
  /\ op' = "relay"
  /\ ret' = "none"
  /\ txlog' = <<>>
  /\ UNCHANGED <<config, live_buffers, state, conn_start_ms, dev_uid, buffer, clock>>

\* Time passes.
AdvanceClock ==
  /\ clock' = (clock + 1) % MillisModulus
  /\ op' = "millis"
  /\ ret' = "none"
  /\ txlog' = <<>>
  /\ UNCHANGED <<config, live_buffers, state, conn_start_ms, dev_uid, buffer, qis, qos>>

\* The state machine: the ticks, the driver, the clock, and the dequeue of
\* available().
Next ==
  \/ TickInit
  \/ TickConnecting
  \/ TickConnected
  \/ TickDisconnecting
  \/ TickDisconnected
  \/ DriverDisconnect
  \/ Available
  \/ AdvanceClock

Spec == Init /\ [][Next]_vars

\* The byte stream: write, the relay's loopback, available and read, on a
\* handler whose inbound notefile starts empty.
InitStream == Init /\ qis = <<>>

NextStream ==
  \/ Write
  \/ RelayDeliver
  \/ Available
  \/ Read
  \/ GetTime

SpecStream == InitStream /\ [][NextStream]_vars

\* The driver's ticks interleaved with the caller's read(), available() and
\* write().
NextInterleaved ==
  \/ TickInit
  \/ TickConnecting
  \/ TickConnected
  \/ TickDisconnecting
  \/ TickDisconnected
  \/ Read
  \/ Available
  \/ Write

\* Two notes are pending at construction, so that available() adopts a
\* payload, and then a shorter one, between the ticks.
InitInterleaved == Init /\ Len(qis) = 2

SpecInterleaved == InitInterleaved /\ [][NextInterleaved]_vars

\* The driver polling for ever: whichever state the handler is in, its tick
\* is eventually taken.  The clock advances as it likes.
Tick ==
  \/ TickInit
  \/ TickConnecting
  \/ TickConnected
  \/ TickDisconnecting
  \/ TickDisconnected

NextTicks == Tick \/ AdvanceClock

SpecTicks == Init /\ [][NextTicks]_vars /\ WF_vars(Tick)


(***************************************************************************)
(* Properties.                                                             *)
(***************************************************************************)
Succeeded(t) == t.out \in {"ok", "note", "note-noexist"}
Failed(t) == t.out \in {"err", "nomem"}
AllSucceeded(log) == \A i \in 1..Len(log) : Succeeded(log[i])
AnyFailed(log, reqs) == \E i \in 1..Len(log) : log[i].req \in reqs /\ Failed(log[i])
Elapsed == (clock - conn_start_ms) % MillisModulus

\* C1: an INIT tick none of whose transactions fails returns CONNECTING
\* with the start timestamp set to the clock when keep-alive is active, and
\* DISCONNECTED when it is inactive, whether the probe found a note or an
\* empty notefile.
C1_InitSuccess ==
  (op = "update_handleInit" /\ AllSucceeded(txlog)) =>
    /\ ret = (IF keep_alive THEN "CONNECTING" ELSE "DISCONNECTED")
    /\ keep_alive => conn_start_ms = clock

\* The part of C1 the code keeps: the same, when the probe found a note.
C1_InitSuccessNotePending ==
  (op = "update_handleInit" /\ AllSucceeded(txlog) /\ txlog[1].out = "note") =>
    /\ ret = (IF keep_alive THEN "CONNECTING" ELSE "DISCONNECTED")
    /\ keep_alive => conn_start_ms = clock

\* The hub.status response of the last tick, and whether it reports the
\* relay connected.
ProbeResponse == txlog[1].data
RelayConnected == ProbeResponse.out = "ok" /\ ProbeResponse.connected

\* C2: a tick in CONNECTING returns CONNECTED when the probe reports
\* relay-connected; otherwise INIT when the clock minus the start timestamp
\* exceeds the timeout and CONNECTING when it does not; a failed probe
\* counts as not relay-connected.
C2_Connecting ==
  op = "update_handleConnecting" =>
    /\ Len(txlog) = 1 /\ txlog[1].req = "hub.status"
    /\ state = ret
    /\ ret = IF RelayConnected THEN "CONNECTED"
             ELSE IF Elapsed > NOTEHUB_CONN_TIMEOUT_MS THEN "INIT"
             ELSE "CONNECTING"

C2_Witness ==
  /\ op = "update_handleConnecting"
  /\ ProbeResponse.out = "err"
  /\ Elapsed > NOTEHUB_CONN_TIMEOUT_MS
  /\ ret = "INIT"

\* C3: a tick in CONNECTED returns CONNECTED exactly when the probe reports
\* relay-connected and DISCONNECTED in every other case, a failed probe
\* included.
C3_Connected ==
  op = "update_handleConnected" =>
    /\ Len(txlog) = 1 /\ txlog[1].req = "hub.status"
    /\ state = ret
    /\ ret \in {"CONNECTED", "DISCONNECTED"}
    /\ ret = "CONNECTED" <=> RelayConnected

C3_Witness ==
  /\ op = "update_handleConnected"
  /\ ProbeResponse.out = "nomem"
  /\ ret = "DISCONNECTED"

\* C4: a tick in DISCONNECTED returns INIT without any transaction when
\* keep-alive is active; otherwise it issues exactly one hub.set in
\* disconnect mode and returns CLOSED when that succeeds, ERROR when not.
C4_Disconnected ==
  op = "update_handleDisconnected" =>
    /\ state = ret
    /\ keep_alive => ret = "INIT" /\ txlog = <<>>
    /\ ~keep_alive =>
         /\ Len(txlog) = 1
         /\ txlog[1].req = "hub.set" /\ txlog[1].arg = "periodic"
         /\ ret = IF txlog[1].out = "ok" THEN "CLOSED" ELSE "ERROR"

C4_Witness ==
  /\ op = "update_handleDisconnected"
  /\ ~keep_alive
  /\ txlog[1].out = "nomem"
  /\ ret = "ERROR"

\* C5: an INIT tick in which a transaction fails (the probe other than by
\* queue-empty, hub.set, either note.template, hub.get) returns ERROR, the
\* failed transaction is the last it attempts, and the start timestamp and
\* the device identifier stay as they were.
C5_InitFailure ==
  [][(op' = "update_handleInit"
        /\ AnyFailed(txlog', {"note.get", "hub.set", "note.template", "hub.get"}))
      => /\ ret' = "ERROR"
         /\ Failed(txlog'[Len(txlog')])
         /\ conn_start_ms' = conn_start_ms
         /\ dev_uid' = dev_uid]_vars

\* The part of C5 the code keeps: the same, for the transactions after the
\* probe.
C5_InitFailureAfterProbe ==
  [][(op' = "update_handleInit"
        /\ AnyFailed(txlog', {"hub.set", "note.template", "hub.get"}))
      => /\ ret' = "ERROR"
         /\ Failed(txlog'[Len(txlog')])
         /\ conn_start_ms' = conn_start_ms
         /\ dev_uid' = dev_uid]_vars


\* The bytes of the inbound buffer not read yet, the bytes the notes of a
\* notefile carry, and the bytes the reader has yet to receive.
Unread == SubSeq(inbound_buffer, inbound_buffer_index + 1, inbound_buffer_size)

RECURSIVE Carried(_)
Carried(queue) ==
  IF Len(queue) = 0 THEN <<>>
  ELSE JB64Decode(Head(queue).payload) \o Carried(Tail(queue))

Inbound == Unread \o Carried(qis)

\* C6: available() dequeues only when the buffer has no unread byte.  With
\* unread bytes it returns true and changes nothing; when the dequeue yields
\* a note, the note's payload becomes the buffer, the cursor is zero and it
\* returns true; when it yields none, it returns false and buffer and cursor
\* stay as they were.
C6_Available ==
  [][op' = "available" =>
      IF inbound_buffer_index < inbound_buffer_size THEN
        ret' = TRUE /\ txlog' = <<>> /\ UNCHANGED <<buffer, qis>>
      ELSE
        /\ Len(txlog') >= 1
        /\ txlog'[1].req = "note.get" /\ txlog'[1].arg = "delete"
        /\ IF txlog'[1].out = "note" THEN
             /\ ret' = TRUE
             /\ inbound_buffer' = JB64Decode(Head(qis).payload)
             /\ inbound_buffer_size' = Len(inbound_buffer')
             /\ inbound_buffer_index' = 0
             /\ qis' = Tail(qis)
           ELSE
             ret' = FALSE /\ UNCHANGED <<buffer, qis>>]_vars

\* The part of C6 the code keeps: the same, for notes whose payload is not
\* empty.
C6_AvailableNonEmptyPayload ==
  [][(op' = "available"
        /\ (inbound_buffer_index < inbound_buffer_size
              \/ Len(qis) = 0 \/ Len(Head(qis).payload) > 0)) =>
      IF inbound_buffer_index < inbound_buffer_size THEN
        ret' = TRUE /\ txlog' = <<>> /\ UNCHANGED <<buffer, qis>>
      ELSE
        /\ Len(txlog') >= 1
        /\ txlog'[1].req = "note.get" /\ txlog'[1].arg = "delete"
        /\ IF txlog'[1].out = "note" THEN
             /\ ret' = TRUE
             /\ inbound_buffer' = JB64Decode(Head(qis).payload)
             /\ inbound_buffer_size' = Len(inbound_buffer')
             /\ inbound_buffer_index' = 0
             /\ qis' = Tail(qis)
           ELSE
             ret' = FALSE /\ UNCHANGED <<buffer, qis>>]_vars

\* C7: read() returns the byte at the cursor and advances the cursor by one
\* when the cursor is below the length; at the length it returns the no-data
\* sentinel and leaves the cursor; it issues no transaction and leaves the
\* inbound notefile and the buffer alone.
C7_Read ==
  [][op' = "read" =>
      /\ IF inbound_buffer_index < inbound_buffer_size
           THEN /\ ret' = inbound_buffer[inbound_buffer_index + 1]
                /\ inbound_buffer_index' = inbound_buffer_index + 1
           ELSE /\ ret' = NOTECARD_ERROR_NO_DATA_AVAILABLE
                /\ inbound_buffer_index' = inbound_buffer_index
      /\ txlog' = <<>>
      /\ UNCHANGED <<qis, qos, inbound_buffer, inbound_buffer_size>>]_vars

\* A read() of an exhausted buffer that once held bytes.
C7_Witness ==
  /\ op = "read"
  /\ ret = NOTECARD_ERROR_NO_DATA_AVAILABLE
  /\ inbound_buffer_size > 0
  /\ inbound_buffer_index = inbound_buffer_size

\* C8: the bytes written come back in order, one per read(): a successful
\* write() adds its payload to the bytes in flight, the relay moves them to
\* the inbound side unchanged, available() neither drops nor adds a byte,
\* and a read() after an available() that returned true yields the next
\* byte.
C8_RoundTrip ==
  [][/\ (op' = "write" /\ ret' = NOTECARD_ERROR_NONE) =>
          Carried(qos') = Carried(qos) \o txlog'[1].data /\ Inbound' = Inbound
     /\ op' = "relay" =>
          Inbound' \o Carried(qos') = Inbound \o Carried(qos)
     /\ op' = "available" =>
          Inbound' = Inbound
     /\ (op' = "read" /\ op = "available" /\ ret = TRUE) =>
          /\ Inbound # <<>>
          /\ ret' = Head(Inbound)
          /\ Inbound' = Tail(Inbound)]_vars

\* Whether the dequeue a log records returned a note with an empty payload.
DequeuedEmptyNote(log) ==
  Len(log) >= 1 /\ log[1].out = "note" /\ Len(log[1].data) = 0

\* The part of C8 the code keeps: the same, except at an available() that
\* dequeues a note with an empty payload and at the read() after it.
C8_RoundTripNonEmptyPayload ==
  [][/\ (op' = "write" /\ ret' = NOTECARD_ERROR_NONE) =>
          Carried(qos') = Carried(qos) \o txlog'[1].data /\ Inbound' = Inbound
     /\ op' = "relay" =>
          Inbound' \o Carried(qos') = Inbound \o Carried(qos)
     /\ (op' = "available" /\ ~DequeuedEmptyNote(txlog')) =>
          Inbound' = Inbound
     /\ (op' = "read" /\ op = "available" /\ ret = TRUE
           /\ ~DequeuedEmptyNote(txlog)) =>
          /\ Inbound # <<>>
          /\ ret' = Head(Inbound)
          /\ Inbound' = Tail(Inbound)]_vars

\* Whether the log holds a re-arm, and where.
Rearms(log) == {i \in 1..Len(log) : log[i].req = "card.attn"}

\* C9: a dequeue, consuming or not, re-arms the interrupt exactly when the
\* note.get response is the queue-empty error and hardware interrupts are
\* enabled, right after the note.get and once; and available() reports no
\* data in every case in which no note came back.
C9_Rearm ==
  (op \in {"update_handleInit", "available"} /\ txlog # <<>>) =>
    /\ txlog[1].req = "note.get"
    /\ txlog[1].arg = (IF op = "available" THEN "delete" ELSE "peek")
    /\ Rearms(txlog) =
         (IF txlog[1].out = "note-noexist" /\ en_hw_int THEN {2} ELSE {})
    /\ op = "available" => (ret = FALSE <=> txlog[1].out # "note")

\* An INIT probe of an empty notefile that re-armed the interrupt.
C9_Witness ==
  /\ op = "update_handleInit"
  /\ en_hw_int
  /\ txlog[1].out = "note-noexist"
  /\ Rearms(txlog) = {2}

\* The status texts that contain the connected token.
TextsWithToken == {ConnectedToken, <<"u", "p", " ">> \o ConnectedToken}

\* The flags the handler of the last tick saw.
SeenStatus == StatusFromUint(connected(ProbeResponse))

\* C10: the flags a state handler sees after the integer encoding are:
\* host_error alone when the query could not be issued; notecard_error
\* alone when the response carries an error; otherwise no error flag,
\* transport_connected exactly when the status text holds the connected
\* token and connected_to_notehub equal to the "connected" field.  The two
\* error flags are never both set.
C10_Probe ==
  op \in {"update_handleConnecting", "update_handleConnected"} =>
    /\ ProbeResponse.out = "nomem" =>
         SeenStatus = [DefaultStatus EXCEPT !.host_error = TRUE]
    /\ ProbeResponse.out = "err" =>
         SeenStatus = [DefaultStatus EXCEPT !.notecard_error = TRUE]
    /\ ProbeResponse.out = "ok" =>
         /\ ~SeenStatus.host_error /\ ~SeenStatus.notecard_error
         /\ SeenStatus.transport_connected <=> ProbeResponse.status \in TextsWithToken
         /\ SeenStatus.connected_to_notehub = ProbeResponse.connected
    /\ ~(SeenStatus.host_error /\ SeenStatus.notecard_error)
    /\ ret = "CONNECTED" <=> SeenStatus.connected_to_notehub

\* A tick whose probe found the local transport up and the relay down.
C10_Witness ==
  /\ op = "update_handleConnecting"
  /\ ProbeResponse.out = "ok"
  /\ ProbeResponse.status \in TextsWithToken
  /\ ~ProbeResponse.connected
  /\ ret # "CONNECTED"

\* C11: write() attempts exactly one note.add transaction and returns the
\* host allocation-failure status exactly when the request could not be built,
\* the generic Notecard error exactly when the response carries an error, and
\* success otherwise; the request asks for an immediate sync exactly when
\* keep-alive is active; and write() changes neither the connection state nor
\* the inbound buffer, its length or the cursor.
C11_Write ==
  [][op' = "write" =>
       /\ Len(txlog') = 1
       /\ txlog'[1].req = "note.add"
       /\ (ret' = HOST_ERROR_OUT_OF_MEMORY) <=> (txlog'[1].out = "nomem")
       /\ (ret' = NOTECARD_ERROR_GENERIC) <=> (txlog'[1].out = "err")
       /\ (ret' = NOTECARD_ERROR_NONE) <=> (txlog'[1].out = "ok")
       /\ ret' \in {HOST_ERROR_OUT_OF_MEMORY, NOTECARD_ERROR_GENERIC,
                    NOTECARD_ERROR_NONE}
       /\ (txlog'[1].arg = "sync") <=> keep_alive
       /\ UNCHANGED <<state, buffer>>]_vars

\* A write() without keep-alive failed on its response, behind an inbound
\* buffer that is partly read.
C11_Witness ==
  /\ op = "write"
  /\ ret = NOTECARD_ERROR_GENERIC
  /\ ~keep_alive
  /\ txlog[1].arg = "nosync"
  /\ 0 < inbound_buffer_index
  /\ inbound_buffer_index < inbound_buffer_size

\* What a call leaves behind, its transactions aside.
Effect(v) == [v EXCEPT !.log = <<>>]

\* C12: an operation that issues a re-arm returns the same value and leaves
\* the same state (next state, start timestamp, device identifier, inbound
\* notefile, buffer, length, cursor) whether the card.attn response carries
\* an error or not.  The operations are the INIT tick, through its probe, and
\* available(), through its dequeue; every other input of the call,
\* including the value the unassigned local of the INIT handler reads as, is
\* the same on both sides.
C12_RearmErrorIgnored ==
  \A g \in Outcome :
    ArmsOnReply(NoteGetReply(qis, g), en_hw_int) =>
      /\ ~(inbound_buffer_index < inbound_buffer_size) =>
           Effect(available(inbound_buffer, inbound_buffer_index,
                            inbound_buffer_size, qis, en_hw_int, g, "err"))
           = Effect(available(inbound_buffer, inbound_buffer_index,
                              inbound_buffer_size, qis, en_hw_int, g, "ok"))
      /\ state = "INIT" =>
           \A u \in ProbeIndeterminate(qis, g) :
           \A c \in Outcome, ti \in Outcome, to \in Outcome, hg \in Outcome :
           \A device \in DeviceUids :
             Effect(update_handleInit(qis, en_hw_int, conn_start_ms, dev_uid,
                                      keep_alive, clock, g, "err", u, c, ti,
                                      to, hg, device))
             = Effect(update_handleInit(qis, en_hw_int, conn_start_ms, dev_uid,
                                        keep_alive, clock, g, "ok", u, c, ti,
                                        to, hg, device))

\* available() found the notefile empty and its re-arm came back with an
\* error, with the handler in INIT: the next tick's probe re-arms as well.
C12_Witness ==
  /\ op = "available"
  /\ Rearms(txlog) = {2}
  /\ txlog[2].out = "err"
  /\ ret = FALSE
  /\ state = "INIT"
  /\ en_hw_int
  /\ qis = <<>>

\* The ticks of the four states other than INIT.
OtherTicks ==
  {"update_handleConnecting", "update_handleConnected",
   "update_handleDisconnecting", "update_handleDisconnected"}

\* The stream operations.
StreamOps == {"read", "available", "write", "getTime"}

\* C13: the start timestamp changes only in an INIT tick that returns
\* CONNECTING, to the clock of that moment; the ticks of the other states and
\* the stream operations leave it as it is; and every INIT tick that returns
\* CONNECTING sets it to the clock, so that the CONNECTING tick after a
\* timeout restart measures the elapsed time from the new timestamp.
C13_StartTimestamp ==
  [][/\ conn_start_ms' # conn_start_ms =>
          op' = "update_handleInit" /\ ret' = "CONNECTING"
     /\ op' \in OtherTicks \cup StreamOps => conn_start_ms' = conn_start_ms
     /\ op' = "update_handleInit" /\ ret' = "CONNECTING" =>
          conn_start_ms' = clock]_vars

\* The part of C13 the code keeps: the same, except that an INIT tick whose
\* probe found no note can return CONNECTING with the old timestamp.
C13_StartTimestampWrittenOnlyByInit ==
  [][/\ conn_start_ms' # conn_start_ms =>
          op' = "update_handleInit" /\ ret' = "CONNECTING"
                                   /\ conn_start_ms' = clock
     /\ op' \in OtherTicks \cup StreamOps => conn_start_ms' = conn_start_ms
     /\ op' = "update_handleInit" /\ ret' = "CONNECTING"
          /\ txlog'[1].out = "note" =>
          conn_start_ms' = clock]_vars

\* C14: in every state reached by interleaving ticks, read(), available()
\* and write(), the cursor lies between zero and the length of the current
\* buffer, the length is that of the buffer, and a read() that returned a
\* byte took it from a position below the length.
C14_CursorInBounds ==
  /\ 0 <= inbound_buffer_index
  /\ inbound_buffer_index <= inbound_buffer_size
  /\ inbound_buffer_size = Len(inbound_buffer)
  /\ op = "read" /\ ret # NOTECARD_ERROR_NO_DATA_AVAILABLE =>
       /\ 1 <= inbound_buffer_index
       /\ ret = inbound_buffer[inbound_buffer_index]

\* After ticks and a write(), a second payload, shorter than the first, is
\* adopted and read to its end.
C14_Witness ==
  /\ op = "read"
  /\ ret = SampleByte(1)
  /\ live_buffers = 2
  /\ inbound_buffer_index = inbound_buffer_size
  /\ inbound_buffer_size = 1
  /\ state = "CONNECTED"
  /\ Len(qos) > 0

\* C15: no tick in INIT, CONNECTING, CONNECTED or DISCONNECTED returns
\* DISCONNECTING, whatever its transactions come to; and a tick in
\* DISCONNECTING returns DISCONNECTED and attempts no transaction.
C15_Disconnecting ==
  /\ op \in {"update_handleInit", "update_handleConnecting",
             "update_handleConnected", "update_handleDisconnected"} =>
       ret # "DISCONNECTING"
  /\ op = "update_handleDisconnecting" =>
       ret = "DISCONNECTED" /\ state = "DISCONNECTED" /\ txlog = <<>>

\* The part of C15 the code keeps: the same, except for an INIT tick whose
\* probe found no note.
C15_DisconnectingNotePending ==
  /\ op \in {"update_handleConnecting", "update_handleConnected",
             "update_handleDisconnected"} =>
       ret # "DISCONNECTING"
  /\ op = "update_handleInit" /\ txlog[1].out = "note" =>
       ret # "DISCONNECTING"
  /\ op = "update_handleDisconnecting" =>
       ret = "DISCONNECTED" /\ state = "DISCONNECTED" /\ txlog = <<>>

\* C16: an INIT tick probes the inbound notefile without consuming: its
\* note.get is the first transaction and the only note.get, it does not ask
\* for deletion, and the notefile, the buffer, its length and the cursor are
\* as before the tick.  When a note is pending the tick issues no re-arm;
\* when the probe finds the notefile empty it issues one re-arm if hardware
\* interrupts are enabled and none if they are not; a probe that fails
\* issues none.
C16_ProbeNonConsuming ==
  [][op' = "update_handleInit" =>
       /\ UNCHANGED <<qis, buffer>>
       /\ Len(txlog') >= 1
       /\ \A i \in 1..Len(txlog') :
            txlog'[i].req = "note.get" <=> i = 1
       /\ txlog'[1].arg = "peek"
       /\ qis # <<>> => Rearms(txlog') = {}
       /\ qis = <<>> /\ ~Failed(txlog'[1]) =>
            /\ txlog'[1].out = "note-noexist"
            /\ en_hw_int => Rearms(txlog') = {2}
            /\ ~en_hw_int => Rearms(txlog') = {}
       /\ Failed(txlog'[1]) => Rearms(txlog') = {}]_vars

\* An INIT tick found a note pending, behind a buffer adopted earlier, and
\* went on without a re-arm although hardware interrupts are enabled.
C16_Witness ==
  /\ op = "update_handleInit"
  /\ txlog[1].out = "note"
  /\ Len(txlog) > 1
  /\ Rearms(txlog) = {}
  /\ en_hw_int
  /\ Len(qis) = 1
  /\ inbound_buffer_size = 2

\* C17: the handler owns at most one payload buffer at any time, the one an
\* adopting available() replaces having been released, and the buffer and
\* the length it holds belong together.
C17_SingleBuffer ==
  /\ live_buffers <= 1
  /\ inbound_buffer_size = Len(inbound_buffer)

\* The part of C17 the code keeps: buffer and length are replaced together,
\* and a buffer is allocated only by an available() that dequeued a note.
C17_BufferAdoptedWhole ==
  [][/\ inbound_buffer_size' = Len(inbound_buffer')
     /\ live_buffers' # live_buffers =>
          /\ op' = "available"
          /\ txlog'[1].out = "note"
          /\ inbound_buffer' = JB64Decode(txlog'[1].data)
          /\ inbound_buffer_index' = 0]_vars

\* C18: a read() that comes right after an available() that returned true
\* returns a byte of the buffer, not the no-data value, whatever note the
\* available() dequeued.
C18_AvailableThenRead ==
  [][op = "available" /\ ret = TRUE /\ op' = "read" =>
       /\ ret' # NOTECARD_ERROR_NO_DATA_AVAILABLE
       /\ ret' = inbound_buffer[inbound_buffer_index + 1]]_vars

\* The part of C18 the code keeps: the same, unless the available() dequeued
\* a note with an empty payload.
C18_AvailableThenReadNonEmptyPayload ==
  [][(/\ op = "available" /\ ret = TRUE /\ op' = "read"
      /\ ~DequeuedEmptyNote(txlog)) =>
       /\ ret' # NOTECARD_ERROR_NO_DATA_AVAILABLE
       /\ ret' = inbound_buffer[inbound_buffer_index + 1]]_vars

\* The ticks.
Ticks == OtherTicks \cup {"update_handleInit"}

\* Every transaction of every tick succeeds.
TransactionsSucceed == [](op \in Ticks => AllSucceeded(txlog))

\* From some point on, every status probe reports relay-connected.
RelayStaysConnected ==
  <>[](op \in {"update_handleConnecting", "update_handleConnected"} =>
         RelayConnected)

\* C19: with keep-alive active, ticks never reach CLOSED; and if every
\* transaction succeeds and, from some point on, every status probe reports
\* relay-connected, then under fair ticking the state eventually is
\* CONNECTED and stays CONNECTED for ever.
C19_KeepAliveConverges ==
  /\ [](keep_alive => state # "CLOSED")
  /\ (keep_alive /\ TransactionsSucceed /\ RelayStaysConnected) =>
       <>[](state = "CONNECTED")

\* The part of C19 the code keeps: the convergence, when a note is pending
\* in the inbound notefile, so that every INIT tick's probe finds one.
C19_KeepAliveConvergesNotePending ==
  (keep_alive /\ qis # <<>> /\ TransactionsSucceed /\ RelayStaysConnected) =>
    <>[](state = "CONNECTED")

\* C20: with keep-alive inactive, ticks from INIT never reach CONNECTING or
\* CONNECTED, never issue hub.status and never write the start timestamp;
\* an INIT tick whose transactions all succeed returns DISCONNECTED, and the
\* tick in DISCONNECTED returns CLOSED or ERROR.
C20_NoKeepAlive ==
  ~keep_alive =>
    /\ state \notin {"CONNECTING", "CONNECTED"}
    /\ \A i \in 1..Len(txlog) : txlog[i].req # "hub.status"
    /\ conn_start_ms = 0
    /\ op = "update_handleInit" /\ AllSucceeded(txlog) => ret = "DISCONNECTED"
    /\ op = "update_handleDisconnected" => ret \in {"CLOSED", "ERROR"}

\* The part of C20 the code keeps: the returns of the INIT tick whose probe
\* found a note and of the DISCONNECTED tick, and the timestamp staying
\* unwritten.
C20_NoKeepAliveNotePending ==
  ~keep_alive =>
    /\ conn_start_ms = 0
    /\ op = "update_handleInit" /\ txlog[1].out = "note" =>
         /\ ret \in {"DISCONNECTED", "ERROR"}
         /\ AllSucceeded(txlog) => ret = "DISCONNECTED"
    /\ op = "update_handleDisconnected" => ret \in {"CLOSED", "ERROR"}
====
